---------------------------- MODULE Spec2Model ----------------------------
(***************************************************************************)
(* Model of the embedding-based few-shot phishing classifier:              *)
(*   classify_knn.py  chunk_text, classify_knn, classify_with_chunking,    *)
(*                    main                                                 *)
(*   classifier.py    PhishingClassifier (singleton, lazy example cache)   *)
(*                                                                         *)
(* One run of the model is one of four programs, chosen by `mode`:         *)
(*   "chunk"  a call of chunk_text(text, chunk_size, overlap)              *)
(*   "vote"   a call of classify_knn on a candidate set                    *)
(*   "knn"    classify_knn.py main on one input file                       *)
(*   "clf"    a process making PhishingClassifier().classify calls         *)
(*                                                                         *)
(* Texts: chunk_text never inspects a character, so a text of length n is  *)
(* the sequence <<1, ..., n>> (each character is named by its position)    *)
(* and a slice is the real subsequence Python's slicing returns.           *)
(*                                                                         *)
(* Similarities: a cosine similarity s in [-1, 1] is the integer           *)
(* s * SimScale in -SimScale..SimScale; sums of similarities are integers  *)
(* in the same unit and a confidence is the exact fraction num/den.        *)
(* The embedding model is external: the similarities of a query to the     *)
(* candidates are chosen nondeterministically.                             *)
(***************************************************************************)
EXTENDS Integers, Sequences, FiniteSets, TLC

VARIABLES
    mode,               \* which program this run is
    pc,                 \* position of the running program
    text,               \* chunk_text: text / content of the input file
    chunk_size,         \* chunk_text: chunk_size
    overlap,            \* chunk_text: overlap
    start,              \* chunk_text: start
    chunks,             \* chunk_text: chunks
    disk,               \* the labeled-example files that exist (and have text)
    example_labels,     \* main: example_labels
    example_embeddings, \* main: example_embeddings
    md_file,            \* main: md_file, the input file
    exclude_file,       \* exclude_file of the current / last call
    use_labels,         \* use_labels / labels: the candidates of the call
    use_embeddings,     \* use_embeddings / embeddings: their vectors
    similarities,       \* similarities of the last vote (modes "vote", "clf")
    k,                  \* k of the current / last call
    chunk_results,      \* classify_with_chunking: chunk_results
    result,             \* what the last call returned
    inst,               \* PhishingClassifier._instance
    model_loads,        \* how many times SentenceTransformer(MODEL_NAME) ran
    passage_embeds,     \* how many passage-mode batches were embedded
    calls               \* how many classify calls the process has made

vars == <<mode, pc, text, chunk_size, overlap, start, chunks, disk,
          example_labels, example_embeddings, md_file, exclude_file,
          use_labels, use_embeddings, similarities, k, chunk_results,
          result, inst, model_loads, passage_embeds, calls>>

(***************************************************************************)
(* Bounds of the model.                                                    *)
(***************************************************************************)
MaxLen == 6         \* longest text of a chunk_text call
MaxSize == 3        \* largest chunk_size of a chunk_text call
MaxOverlap == 3     \* largest overlap of a chunk_text call
SimScale == 2       \* similarities are multiples of 1/SimScale
MaxCand == 3        \* largest candidate set of a classify_knn call
MaxK == 3           \* largest k
MaxCalls == 2       \* classify calls per process
MaxChunks == MaxLen + 2   \* cap on loop iterations of a chunk_text call

(***************************************************************************)
(* Program constants.                                                      *)
(***************************************************************************)
CHUNK_SIZE == 1000
CHUNK_OVERLAP == 200
DEFAULT_K == 3

(***************************************************************************)
(* Python values.                                                          *)
(***************************************************************************)
None == [some |-> FALSE]
Some(v) == [some |-> TRUE, val |-> v]
NoFile == "None"

Min(a, b) == IF a <= b THEN a ELSE b
Max(a, b) == IF a >= b THEN a ELSE b

\* s[a:b] of Python, for integers a and b (negative indices count from the end)
PySlice(s, a, b) ==
    LET n == Len(s)
        lo == IF a < 0 THEN Max(a + n, 0) ELSE Min(a, n)
        hi == IF b < 0 THEN Max(b + n, 0) ELSE Min(b, n)
    IN  SubSeq(s, lo + 1, hi)

Reverse(s) == [i \in 1..Len(s) |-> s[Len(s) + 1 - i]]

Text(n) == [i \in 1..n |-> i]

\* the elements of seq at the indices in keep, in order
KeepAt(seq, keep) ==
    LET F[i \in 0..Len(seq)] ==
            IF i = 0 THEN <<>>
            ELSE IF i \in keep THEN Append(F[i - 1], seq[i]) ELSE F[i - 1]
    IN  F[Len(seq)]

\* no call has returned yet
NoResult == [status |-> "none"]

\* the passage-mode embedding of the text of file f
Passage(f) == [mode |-> "passage", of |-> f]

\* candidate i of a classify_knn call
Candidate(i, ph) == [file |-> i, is_phishing |-> ph, label |-> i]


(***************************************************************************)
(* chunk_text (classify_knn.py 61-75)                                      *)
(***************************************************************************)
\* line 63: if len(text) <= chunk_size
FitsOneChunk(t, size) == Len(t) <= size

\* line 69: end = start + chunk_size
WindowEnd(s, size) == s + size

\* mutant of NextStart: the window advances one character too far
NextStartSkip(end, ov) == end - ov + 1

\* mutant of NextStart: the overlap is taken off twice
NextStartRetreat(end, ov) == end - ov - ov

\* line 72: start = end - overlap
NextStart(end, ov) == end - ov

\* mutant of StopAfter: the loop stops only when start passes the end
StopAtEnd(s, ov, t) == s >= Len(t)

\* line 73: if start + overlap >= len(text): break
StopAfter(s, ov, t) == s + ov >= Len(t)

\* where chunk_text returns to
ChunkReturn == IF mode = "knn" THEN "classify" ELSE "done"

\* lines 63-67: the single-chunk return, or the loop's initialisation
ChunkEntry ==
    /\ pc = "chunk_entry"
    /\ IF FitsOneChunk(text, chunk_size)
       THEN /\ chunks' = <<text>>
            /\ start' = start
            /\ pc' = ChunkReturn
       ELSE /\ chunks' = <<>>
            /\ start' = 0
            /\ pc' = "chunk_loop"
    /\ UNCHANGED <<mode, text, chunk_size, overlap, disk, example_labels,
                   example_embeddings, md_file, exclude_file, use_labels,
                   use_embeddings, similarities, k, chunk_results, result,
                   inst, model_loads, passage_embeds, calls>>

\* lines 68-75: one test of the while condition and, if it holds, one iteration
ChunkLoop ==
    /\ pc = "chunk_loop"
    /\ Len(chunks) < MaxChunks
    /\ IF start < Len(text)
       THEN LET end == WindowEnd(start, chunk_size)
                chunk == PySlice(text, start, end)
                nstart == NextStart(end, overlap)
            IN  /\ chunks' = Append(chunks, chunk)
                /\ start' = nstart
                /\ pc' = IF StopAfter(nstart, overlap, text)
                         THEN ChunkReturn ELSE "chunk_loop"
       ELSE /\ pc' = ChunkReturn
            /\ UNCHANGED <<chunks, start>>
    /\ UNCHANGED <<mode, text, chunk_size, overlap, disk, example_labels,
                   example_embeddings, md_file, exclude_file, use_labels,
                   use_embeddings, similarities, k, chunk_results, result,
                   inst, model_loads, passage_embeds, calls>>

(***************************************************************************)
(* classify_knn (classify_knn.py 87-121)                                   *)
(***************************************************************************)
Sims == (0 - SimScale)..SimScale

\* the similarity vectors a query can have against n candidates
SimVectors(n) == [1..n -> Sims]

\* np.argsort(similarities): the index orders that sort ascending.  The
\* default sort kind is not stable, so any order of equal values may come out.
ArgSorts(sims) ==
    LET n == Len(sims)
    IN  {p \in Permutations(1..n) :
            \A i \in 1..n - 1 : sims[p[i]] <= sims[p[i + 1]]}

\* mutant of top_k_indices: the reversal [::-1] is forgotten
top_k_ascending(order, kk) == PySlice(order, 0 - kk, Len(order))

\* line 93: np.argsort(similarities)[-k:][::-1]
top_k_indices(order, kk) == Reverse(PySlice(order, 0 - kk, Len(order)))

\* lines 103-108
Neighbor(labels, sims, idx) ==
    [file |-> labels[idx].file,
     label |-> labels[idx].label,
     similarity |-> sims[idx],
     is_phishing |-> labels[idx].is_phishing]

\* lines 96-97, 109-112: the similarities of the neighbors of one class, summed
RECURSIVE VoteSum(_, _)
VoteSum(neighbors, cls) ==
    IF neighbors = <<>> THEN 0
    ELSE (IF neighbors[1].is_phishing = cls THEN neighbors[1].similarity ELSE 0)
         + VoteSum(Tail(neighbors), cls)

\* mutant of KnnIsPhishing: a tie counts as phishing
KnnIsPhishingOnTie(phishing_votes, legit_votes) == phishing_votes >= legit_votes

\* line 114
KnnIsPhishing(phishing_votes, legit_votes) == phishing_votes > legit_votes

\* line 115
KnnConfidence(phishing_votes, legit_votes) ==
    IF phishing_votes + legit_votes > 0
    THEN [num |-> Max(phishing_votes, legit_votes),
          den |-> phishing_votes + legit_votes]
    ELSE [num |-> 0, den |-> 1]

\* line 90: sklearn's cosine_similarity raises ValueError when the candidate
\* array has no rows
KnnError == [status |-> "error", error |-> "ValueError"]

classify_knn(sims, labels, order, kk) ==
    IF Len(labels) = 0
    THEN KnnError
    ELSE LET top == top_k_indices(order, kk)
             neighbors == [i \in 1..Len(top) |-> Neighbor(labels, sims, top[i])]
             phishing_votes == VoteSum(neighbors, TRUE)
             legit_votes == VoteSum(neighbors, FALSE)
         IN  [status |-> "ok",
              is_phishing |-> KnnIsPhishing(phishing_votes, legit_votes),
              confidence |-> KnnConfidence(phishing_votes, legit_votes),
              neighbors |-> neighbors]

\* a call of classify_knn on the candidates use_labels
Vote ==
    /\ pc = "vote"
    /\ \E order \in ArgSorts(similarities) :
          result' = classify_knn(similarities, use_labels, order, k)
    /\ pc' = IF Len(use_labels) = 0 THEN "error" ELSE "done"
    /\ UNCHANGED <<mode, text, chunk_size, overlap, start, chunks, disk,
                   example_labels, example_embeddings, md_file, exclude_file,
                   use_labels, use_embeddings, similarities, k, chunk_results,
                   inst, model_loads, passage_embeds, calls>>

(***************************************************************************)
(* classify_with_chunking and main (classify_knn.py 124-225)               *)
(***************************************************************************)
\* lines 17-35: the table of labeled examples, here one phishing and one
\* legitimate entry
LABELED_EXAMPLES ==
    << [file |-> "ex1", is_phishing |-> TRUE, label |-> "phishing example"],
       [file |-> "ex2", is_phishing |-> FALSE, label |-> "legitimate example"] >>

TableFiles(table) == {table[i].file : i \in 1..Len(table)}

\* an input file that is no labeled example
OtherFile == "other"

\* lengths of the input file's content: 1, 1, 2 and 3 chunks
ContentLens == {0, CHUNK_SIZE, CHUNK_SIZE + 1, 2 * CHUNK_SIZE - CHUNK_OVERLAP + 1}

\* lines 188-197: the entries of the table whose file exists, in table order
LoadExamples(table, d) == SelectSeq(table, LAMBDA e : e.file \in d)

\* line 202: embed_texts(model, example_texts, is_query=False)
EmbedPassages(labels) == [i \in 1..Len(labels) |-> Passage(labels[i].file)]

\* lines 215-219: the input's own label, when it is a labeled example
ExcludeFor(f, labels) ==
    IF \E i \in 1..Len(labels) : labels[i].file = f THEN f ELSE NoFile

\* mutant of Keeps: the excluded file is not filtered out
KeepsAll(label, excl) == TRUE

\* line 137: the examples that stay
Keeps(label, excl) == label.file # excl

\* lines 133-144: the candidate set of a call
FilterExamples(labels, embeddings, excl) ==
    IF excl # NoFile
    THEN LET keep == {i \in 1..Len(labels) : Keeps(labels[i], excl)}
             filtered_labels == KeepAt(labels, keep)
             filtered_embeddings == KeepAt(embeddings, keep)
         IN  [use_labels |-> IF filtered_labels # <<>>
                             THEN filtered_labels ELSE labels,
              use_embeddings |-> IF filtered_embeddings # <<>>
                                 THEN filtered_embeddings ELSE embeddings]
    ELSE [use_labels |-> labels, use_embeddings |-> embeddings]

\* a < b for two confidences
ConfLess(a, b) == a.num * b.den < b.num * a.den

\* max(rs, key=lambda x: x["confidence"]): the first of the maximal elements
RECURSIVE PyMaxConfidence(_)
PyMaxConfidence(rs) ==
    IF Len(rs) = 1 THEN rs[1]
    ELSE LET front == PyMaxConfidence(SubSeq(rs, 1, Len(rs) - 1))
             last == rs[Len(rs)]
         IN  IF ConfLess(front.confidence, last.confidence) THEN last ELSE front

\* mutant of any_phishing: the email is phishing when most chunks are
any_phishing_majority(rs) ==
    2 * Cardinality({i \in 1..Len(rs) : rs[i].is_phishing}) > Len(rs)

\* line 157
any_phishing(rs) == \E i \in 1..Len(rs) : rs[i].is_phishing

\* lines 161, 171
phishing_chunks(rs) == SelectSeq(rs, LAMBDA r : r.is_phishing)

\* mutant of best_chunk: the most confident chunk, whatever its verdict
best_of_all_chunks(rs) == PyMaxConfidence(rs)

\* lines 160-164
best_chunk(rs) ==
    IF any_phishing(rs)
    THEN PyMaxConfidence(phishing_chunks(rs))
    ELSE PyMaxConfidence(rs)

\* lines 156-173, and main's lines 223-224
EmailVerdict(rs, cs, f, excl) ==
    [status |-> "ok",
     is_phishing |-> any_phishing(rs),
     confidence |-> best_chunk(rs).confidence,
     neighbors |-> best_chunk(rs).neighbors,
     num_chunks |-> Len(cs),
     phishing_chunks |-> Len(phishing_chunks(rs)),
     file |-> f,
     was_excluded |-> excl # NoFile]

\* main, lines 181-202: load the model, load and embed the labeled examples
Main_Load ==
    /\ mode = "knn" /\ pc = "load"
    /\ model_loads' = model_loads + 1
    /\ example_labels' = LoadExamples(LABELED_EXAMPLES, disk)
    /\ example_embeddings' = EmbedPassages(LoadExamples(LABELED_EXAMPLES, disk))
    /\ passage_embeds' = passage_embeds + 1
    /\ pc' = "select"
    /\ UNCHANGED <<mode, text, chunk_size, overlap, start, chunks, disk,
                   md_file, exclude_file, use_labels, use_embeddings,
                   similarities, k, chunk_results, result, inst, calls>>

\* main, lines 206-219: skip a missing input, else pick the file to exclude
Main_Select ==
    /\ mode = "knn" /\ pc = "select"
    /\ IF md_file \in disk \cup {OtherFile}
       THEN /\ exclude_file' = ExcludeFor(md_file, example_labels)
            /\ pc' = "filter"
       ELSE /\ exclude_file' = exclude_file
            /\ pc' = "done"
    /\ UNCHANGED <<mode, text, chunk_size, overlap, start, chunks, disk,
                   example_labels, example_embeddings, md_file, use_labels,
                   use_embeddings, similarities, k, chunk_results, result,
                   inst, model_loads, passage_embeds, calls>>

\* classify_with_chunking, lines 133-146: filter, then call chunk_text(content)
CWC_Filter ==
    /\ mode = "knn" /\ pc = "filter"
    /\ LET f == FilterExamples(example_labels, example_embeddings, exclude_file)
       IN  /\ use_labels' = f.use_labels
           /\ use_embeddings' = f.use_embeddings
    /\ chunk_size' = CHUNK_SIZE
    /\ overlap' = CHUNK_OVERLAP
    /\ chunk_results' = <<>>
    /\ pc' = "chunk_entry"
    /\ UNCHANGED <<mode, text, start, chunks, disk, example_labels,
                   example_embeddings, md_file, exclude_file, similarities, k,
                   result, inst, model_loads, passage_embeds, calls>>

\* classify_with_chunking, lines 149-154: embed and classify the next chunk
\* (chunk_preview, a diagnostic string, is left out)
CWC_Classify ==
    /\ mode = "knn" /\ pc = "classify"
    /\ Len(chunk_results) < Len(chunks)
    /\ \E sims \in SimVectors(Len(use_embeddings)) :
       \E order \in ArgSorts(sims) :
          LET i == Len(chunk_results) + 1
              r == classify_knn(sims, use_labels, order, k)
          IN  IF r.status = "error"
              THEN /\ result' = r
                   /\ pc' = "error"
                   /\ UNCHANGED chunk_results
              ELSE /\ chunk_results' = Append(chunk_results,
                          [status |-> "ok",
                           is_phishing |-> r.is_phishing,
                           confidence |-> r.confidence,
                           neighbors |-> r.neighbors,
                           chunk_index |-> i - 1])
                   /\ pc' = IF i = Len(chunks) THEN "aggregate" ELSE "classify"
                   /\ UNCHANGED result
    /\ UNCHANGED <<mode, text, chunk_size, overlap, start, chunks, disk,
                   example_labels, example_embeddings, md_file, exclude_file,
                   use_labels, use_embeddings, similarities, k, inst,
                   model_loads, passage_embeds, calls>>

\* classify_with_chunking, lines 156-173, and main's lines 223-225
CWC_Aggregate ==
    /\ mode = "knn" /\ pc = "aggregate"
    /\ result' = EmailVerdict(chunk_results, chunks, md_file, exclude_file)
    /\ pc' = "done"
    /\ UNCHANGED <<mode, text, chunk_size, overlap, start, chunks, disk,
                   example_labels, example_embeddings, md_file, exclude_file,
                   use_labels, use_embeddings, similarities, k, chunk_results,
                   inst, model_loads, passage_embeds, calls>>

(***************************************************************************)
(* PhishingClassifier (classifier.py 122-228)                              *)
(***************************************************************************)
\* lines 27-38: the table of labeled examples, here one phishing and one
\* legitimate entry
CLF_LABELED_EXAMPLES ==
    << [file |-> "ex1", is_phishing |-> TRUE, label |-> "phishing example"],
       [file |-> "ex2", is_phishing |-> FALSE, label |-> "legitimate example"] >>

\* lines 125-131: the instance __new__ makes the first time
NewInstance ==
    [_model |-> None, _example_embeddings |-> None, _example_labels |-> None]

\* PhishingClassifier(): the one instance of the process
TheInstance(i) == IF i = None THEN NewInstance ELSE i

\* line 135: the model property loads only when nothing is cached
ModelMissing(i) == i._model = None

\* lines 135-138: the instance after a use of the model property
WithModel(i) ==
    [_model |-> Some("E5"),
     _example_embeddings |-> i._example_embeddings,
     _example_labels |-> i._example_labels]

\* mutant of ExamplesMissing: the examples are loaded on every call
ExamplesAlwaysMissing(i) == TRUE

\* line 150: _load_examples returns at once when the examples are cached
ExamplesMissing(i) == i._example_embeddings = None

\* lines 148-174: the instance after _load_examples, with the number of model
\* loads (line 137) and of passage batches embedded (line 169) it made.
\* d holds the files that exist and yield text (lines 158-160).
_load_examples(i, d) ==
    IF ~ExamplesMissing(i)
    THEN [inst |-> i, loads |-> 0, embeds |-> 0]
    ELSE LET labels == LoadExamples(CLF_LABELED_EXAMPLES, d)
         IN  IF labels # <<>>
             THEN [inst |-> [_model |-> WithModel(i)._model,
                             _example_embeddings |-> Some(EmbedPassages(labels)),
                             _example_labels |-> Some(labels)],
                   loads |-> IF ModelMissing(i) THEN 1 ELSE 0,
                   embeds |-> 1]
             ELSE [inst |-> [_model |-> i._model,
                             _example_embeddings |-> Some(<<>>),
                             _example_labels |-> Some(<<>>)],
                   loads |-> 0,
                   embeds |-> 0]

\* lines 184, 196
ClfDefault ==
    [status |-> "ok", is_phishing |-> FALSE,
     confidence |-> [num |-> 0, den |-> 1], neighbors |-> <<>>]

\* line 188: the mask of the examples that stay
ClfMask(labels, excl) == {j \in 1..Len(labels) : labels[j].file # excl}

\* lines 187-193: the candidate set of a call, a view of the cached store
ClfFilter(labels, embeddings, excl) ==
    IF excl # NoFile
    THEN [labels |-> KeepAt(labels, ClfMask(labels, excl)),
          embeddings |-> KeepAt(embeddings, ClfMask(labels, excl))]
    ELSE [labels |-> labels, embeddings |-> embeddings]

\* line 224
ClfIsPhishing(phishing_score, legit_score) == phishing_score > legit_score

\* lines 225-226
ClfConfidence(phishing_score, legit_score) ==
    LET total == phishing_score + legit_score
    IN  IF total > 0
        THEN [num |-> Max(phishing_score, legit_score), den |-> total]
        ELSE [num |-> 0, den |-> 1]

\* lines 201-228: the vote over the candidates, given their similarities
\* and the order np.argsort returned
ClfVote(sims, labels, order, kk) ==
    LET top_k_idx == top_k_indices(order, kk)
        neighbors ==
            [j \in 1..Len(top_k_idx) |-> Neighbor(labels, sims, top_k_idx[j])]
        phishing_score == VoteSum(neighbors, TRUE)
        legit_score == VoteSum(neighbors, FALSE)
    IN  [status |-> "ok",
         is_phishing |-> ClfIsPhishing(phishing_score, legit_score),
         confidence |-> ClfConfidence(phishing_score, legit_score),
         neighbors |-> neighbors]

\* PhishingClassifier().classify(text, k, exclude_file), lines 176-228:
\* load the examples if need be, return the default when there is none or
\* the exclusion leaves none, else embed the query (line 199) and vote.
\* The query text plays no part but through its similarities.
Clf_Classify ==
    /\ mode = "clf" /\ pc = "idle"
    /\ calls < MaxCalls
    /\ \E excl \in {NoFile} \cup TableFiles(CLF_LABELED_EXAMPLES), kk \in 1..MaxK :
          LET loaded == _load_examples(TheInstance(inst), disk)
              self == loaded.inst
              view == ClfFilter(self._example_labels.val,
                                self._example_embeddings.val, excl)
          IN  /\ passage_embeds' = passage_embeds + loaded.embeds
              /\ exclude_file' = excl
              /\ k' = kk
              /\ use_labels' = view.labels
              /\ use_embeddings' = view.embeddings
              /\ IF Len(self._example_labels.val) = 0 \/ Len(view.labels) = 0
                 THEN /\ result' = ClfDefault
                      /\ similarities' = <<>>
                      /\ inst' = self
                      /\ model_loads' = model_loads + loaded.loads
                 ELSE /\ \E sims \in SimVectors(Len(view.embeddings)) :
                         \E order \in ArgSorts(sims) :
                            /\ similarities' = sims
                            /\ result' = ClfVote(sims, view.labels, order, kk)
                      /\ inst' = WithModel(self)
                      /\ model_loads' = model_loads + loaded.loads
                                           + (IF ModelMissing(self) THEN 1 ELSE 0)
    /\ calls' = calls + 1
    /\ UNCHANGED <<mode, pc, text, chunk_size, overlap, start, chunks, disk,
                   example_labels, example_embeddings, md_file, chunk_results>>

\* between two calls the example files on disk may come and go
Clf_DiskChange ==
    /\ mode = "clf" /\ pc = "idle"
    /\ calls < MaxCalls
    /\ disk' \in SUBSET TableFiles(CLF_LABELED_EXAMPLES)
    /\ disk' # disk
    /\ UNCHANGED <<mode, pc, text, chunk_size, overlap, start, chunks,
                   example_labels, example_embeddings, md_file, exclude_file,
                   use_labels, use_embeddings, similarities, k, chunk_results,
                   result, inst, model_loads, passage_embeds, calls>>

(***************************************************************************)
(* Initial states                                                          *)
(***************************************************************************)
\* chunk_text(text, chunk_size, overlap), and the scenario 2500 / 1000 / 200
InitChunk ==
    /\ mode = "chunk" /\ pc = "chunk_entry"
    /\ \E n \in 0..MaxLen, size \in 1..MaxSize, ov \in 0..MaxOverlap,
          scenario \in BOOLEAN :
          /\ scenario => (n = 0 /\ size = 1 /\ ov = 0)
          /\ text = IF scenario THEN Text(2500) ELSE Text(n)
          /\ chunk_size = IF scenario THEN CHUNK_SIZE ELSE size
          /\ overlap = IF scenario THEN CHUNK_OVERLAP ELSE ov
    /\ start = 0 /\ chunks = <<>> /\ disk = {} /\ example_labels = <<>>
    /\ example_embeddings = <<>> /\ md_file = NoFile /\ exclude_file = NoFile
    /\ use_labels = <<>> /\ use_embeddings = <<>> /\ similarities = <<>>
    /\ k = 0 /\ chunk_results = <<>> /\ result = NoResult /\ inst = None
    /\ model_loads = 0 /\ passage_embeds = 0 /\ calls = 0

\* classify_knn(query_embedding, example_embeddings, example_labels, k)
InitVote ==
    /\ mode = "vote" /\ pc = "vote"
    /\ \E n \in 0..MaxCand :
          /\ \E ph \in [1..n -> BOOLEAN] :
                use_labels = [i \in 1..n |-> Candidate(i, ph[i])]
          /\ use_embeddings = [i \in 1..n |-> Passage(i)]
          /\ similarities \in SimVectors(n)
    /\ k \in 1..MaxK
    /\ text = <<>> /\ chunk_size = 0 /\ overlap = 0 /\ start = 0
    /\ chunks = <<>> /\ disk = {} /\ example_labels = <<>>
    /\ example_embeddings = <<>> /\ md_file = NoFile /\ exclude_file = NoFile
    /\ chunk_results = <<>> /\ result = NoResult /\ inst = None
    /\ model_loads = 0 /\ passage_embeds = 0 /\ calls = 0

\* classify_knn.py main on one input file
InitKnn ==
    /\ mode = "knn" /\ pc = "load"
    /\ disk \in SUBSET TableFiles(LABELED_EXAMPLES)
    /\ md_file \in TableFiles(LABELED_EXAMPLES) \cup {OtherFile}
    /\ text \in {Text(n) : n \in ContentLens}
    /\ k = DEFAULT_K
    /\ chunk_size = 0 /\ overlap = 0 /\ start = 0
    /\ chunks = <<>> /\ example_labels = <<>>
    /\ example_embeddings = <<>> /\ exclude_file = NoFile
    /\ use_labels = <<>> /\ use_embeddings = <<>> /\ similarities = <<>>
    /\ chunk_results = <<>> /\ result = NoResult /\ inst = None
    /\ model_loads = 0 /\ passage_embeds = 0 /\ calls = 0

\* a process that uses PhishingClassifier
InitClf ==
    /\ mode = "clf" /\ pc = "idle"
    /\ disk \in SUBSET TableFiles(CLF_LABELED_EXAMPLES)
    /\ text = <<>> /\ chunk_size = 0 /\ overlap = 0 /\ start = 0
    /\ chunks = <<>> /\ example_labels = <<>>
    /\ example_embeddings = <<>> /\ md_file = NoFile /\ exclude_file = NoFile
    /\ use_labels = <<>> /\ use_embeddings = <<>> /\ similarities = <<>>
    /\ k = 0 /\ chunk_results = <<>> /\ result = NoResult /\ inst = None
    /\ model_loads = 0 /\ passage_embeds = 0 /\ calls = 0

Init == InitChunk \/ InitVote \/ InitKnn \/ InitClf

Next ==
    \/ ChunkEntry \/ ChunkLoop \/ Vote
    \/ Main_Load \/ Main_Select \/ CWC_Filter \/ CWC_Classify \/ CWC_Aggregate
    \/ Clf_Classify \/ Clf_DiskChange

Spec == Init /\ [][Next]_vars

\* a call of chunk_text alone.  The interpreter runs the loop on: a step
\* that can be taken is taken.
NextChunk == ChunkEntry \/ ChunkLoop

SpecChunk == InitChunk /\ [][NextChunk]_vars /\ WF_vars(NextChunk)

(***************************************************************************)
(* Properties                                                              *)
(***************************************************************************)
\* classify_knn.py main has classified its input and holds the verdict
KnnReturned == mode = "knn" /\ pc = "done" /\ result.status = "ok"

\* a classify call of PhishingClassifier has returned
ClfReturned == mode = "clf" /\ calls > 0

\* chunk_text has just returned
ChunkTextReturned ==
    \/ mode = "chunk" /\ pc = "done"
    \/ mode = "knn" /\ pc = "classify" /\ chunk_results = <<>>

NeighborFiles(neighbors) == {neighbors[i].file : i \in 1..Len(neighbors)}

LabelFiles(labels) == {labels[i].file : i \in 1..Len(labels)}

\* the sum of the similarities of the neighbors of one class
SimSum(neighbors, cls) ==
    LET S[i \in 0..Len(neighbors)] ==
            IF i = 0 THEN 0
            ELSE S[i - 1] + (IF neighbors[i].is_phishing = cls
                             THEN neighbors[i].similarity ELSE 0)
    IN  S[Len(neighbors)]

PhishingIdx == {i \in 1..Len(chunk_results) : chunk_results[i].is_phishing}

\* C1: the email verdict of classify_with_chunking is phishing exactly when
\* at least one per-chunk verdict is phishing, and exactly when the reported
\* phishing_chunks count, which is the number of phishing chunks, is >= 1.
C1_AnyChunkPositive ==
    KnnReturned =>
        /\ result.is_phishing <=> (PhishingIdx # {})
        /\ result.is_phishing <=> (result.phishing_chunks >= 1)
        /\ result.phishing_chunks = Cardinality(PhishingIdx)

\* C1 witness: a verdict over a legitimate and a phishing chunk
C1_Witness ==
    /\ KnnReturned
    /\ PhishingIdx # {}
    /\ \E i \in 1..Len(chunk_results) : ~chunk_results[i].is_phishing

\* the example excluded by the call is not among the neighbors
ExcludedAbsent(neighbors) == exclude_file \notin NeighborFiles(neighbors)

\* C2 as claimed: a call whose exclude identifier is a labeled example of the
\* store never returns that example as a neighbor of a chunk or of the
\* verdict, whatever the store holds, also when it holds that example alone.
C2_LeaveOneOutAnyStore ==
    /\ (mode = "knn" /\ exclude_file \in LabelFiles(example_labels)) =>
          /\ \A i \in 1..Len(chunk_results) :
                ExcludedAbsent(chunk_results[i].neighbors)
          /\ result.status = "ok" => ExcludedAbsent(result.neighbors)
    /\ (ClfReturned /\ exclude_file \in LabelFiles(inst._example_labels.val)) =>
          ExcludedAbsent(result.neighbors)

\* C2 amended: the excluded example is never a neighbor when the store holds
\* another example; PhishingClassifier.classify never returns it at all;
\* classify_with_chunking, when the excluded example is the only one of the
\* store, falls back to the whole store and returns it as the only neighbor.
C2_LeaveOneOut ==
    /\ (mode = "knn" /\ exclude_file \in LabelFiles(example_labels)) =>
          IF Len(example_labels) >= 2
          THEN /\ \A i \in 1..Len(chunk_results) :
                     ExcludedAbsent(chunk_results[i].neighbors)
               /\ result.status = "ok" => ExcludedAbsent(result.neighbors)
          ELSE /\ \A i \in 1..Len(chunk_results) :
                     NeighborFiles(chunk_results[i].neighbors) = {exclude_file}
               /\ result.status = "ok" =>
                     NeighborFiles(result.neighbors) = {exclude_file}
    /\ (ClfReturned /\ exclude_file \in LabelFiles(inst._example_labels.val)) =>
          /\ ExcludedAbsent(result.neighbors)
          /\ Len(inst._example_labels.val) = 1 => result.neighbors = <<>>

\* C2 witness: a verdict of a leave-one-out call on a store of two examples
C2_Witness ==
    /\ KnnReturned
    /\ exclude_file \in LabelFiles(example_labels)
    /\ Len(example_labels) >= 2
    /\ result.neighbors # <<>>

\* excluding excl from the store would leave no example
ExcludeRemovesAll(labels, excl) ==
    /\ labels # <<>>
    /\ excl # NoFile
    /\ \A i \in 1..Len(labels) : labels[i].file = excl

\* C3: when the store is non-empty and the exclusion would remove every
\* example, both entry points classify against the whole unfiltered store:
\* the result has neighbors, drawn from the unfiltered store.
C3_FallbackToUnfiltered ==
    /\ (mode = "knn" /\ pc \in {"chunk_entry", "chunk_loop", "classify",
                                "aggregate", "done", "error"}
          /\ ExcludeRemovesAll(example_labels, exclude_file)) =>
          /\ use_labels = example_labels
          /\ use_embeddings = example_embeddings
          /\ pc # "error"
          /\ pc = "done" =>
                /\ result.neighbors # <<>>
                /\ NeighborFiles(result.neighbors) \subseteq LabelFiles(example_labels)
    /\ (ClfReturned /\ ExcludeRemovesAll(inst._example_labels.val, exclude_file)) =>
          /\ result.neighbors # <<>>
          /\ NeighborFiles(result.neighbors)
                \subseteq LabelFiles(inst._example_labels.val)

\* a confidence lies in [0.0, 1.0]
InUnitInterval(c) == c.den > 0 /\ 0 <= c.num /\ c.num <= c.den

\* C4: every confidence the voter returns (for a chunk, for the email, from
\* classify_knn and from PhishingClassifier.classify) lies in [0.0, 1.0],
\* for similarities anywhere in [-1, 1].
C4_ConfidenceInUnitInterval ==
    /\ (mode = "vote" /\ result.status = "ok") => InUnitInterval(result.confidence)
    /\ mode = "knn" =>
          /\ \A i \in 1..Len(chunk_results) :
                InUnitInterval(chunk_results[i].confidence)
          /\ result.status = "ok" => InUnitInterval(result.confidence)
    /\ ClfReturned => InUnitInterval(result.confidence)

\* the result of a classification over no example
ZeroExampleDefault(r) ==
    /\ r.status = "ok"
    /\ ~r.is_phishing
    /\ r.confidence.num = 0
    /\ r.neighbors = <<>>

\* C5: with an empty example store every classification returns
\* is_phishing=false, confidence=0.0 and no neighbors, without an error:
\* classify_knn on an empty candidate set, classify_with_chunking as main
\* drives it, and PhishingClassifier.classify.
C5_EmptyStoreDefault ==
    /\ (mode = "vote" /\ pc # "vote" /\ use_labels = <<>>) =>
          ZeroExampleDefault(result)
    /\ (mode = "knn" /\ pc \in {"done", "error"} /\ example_labels = <<>>
          /\ md_file \in disk \cup {OtherFile}) =>
          ZeroExampleDefault(result)
    /\ (ClfReturned /\ inst._example_labels.val = <<>>) =>
          ZeroExampleDefault(result)

\* the characters (positions of the text) a chunk holds
Chars(chunk) == {chunk[m] : m \in 1..Len(chunk)}

\* C6: for 0 <= overlap < chunk_size every character of the text is in at
\* least one chunk chunk_text returns: the first window starts at the first
\* character, each window starts no later than right after the one before
\* it ends, and the last window reaches the end of the text.
C6_ChunksCoverText ==
    (ChunkTextReturned /\ 0 <= overlap /\ overlap < chunk_size) =>
        /\ chunks # <<>>
        /\ UNION {Chars(chunks[j]) : j \in 1..Len(chunks)} = 1..Len(text)
        /\ text # <<>> =>
              /\ \A j \in 1..Len(chunks) : chunks[j] # <<>>
              /\ chunks[1][1] = 1
              /\ \A j \in 1..Len(chunks) - 1 :
                    chunks[j + 1][1] <= chunks[j][Len(chunks[j])] + 1
              /\ chunks[Len(chunks)][Len(chunks[Len(chunks)])] = Len(text)

\* C6 witness: a text cut into at least three overlapping chunks
C6_Witness ==
    /\ ChunkTextReturned
    /\ 0 < overlap /\ overlap < chunk_size
    /\ Len(chunks) >= 3

\* the number of windows: the smallest n whose last window, starting at
\* (n - 1) * (size - ov), ends at or after the end of the text
WindowCount(len, size, ov) ==
    CHOOSE n \in 1..len :
        /\ (n - 1) * (size - ov) + size >= len
        /\ \A m \in 1..n - 1 : (m - 1) * (size - ov) + size < len

\* the chunks C10 describes
WindowChunks(t, size, ov) ==
    IF Len(t) <= size THEN <<t>>
    ELSE [j \in 1..WindowCount(Len(t), size, ov) |->
             PySlice(t, (j - 1) * (size - ov), (j - 1) * (size - ov) + size)]

\* C10: for 0 <= overlap < size chunk_text returns [text] when the text has
\* at most size characters, else the windows of size characters at the start
\* offsets j * (size - overlap), j = 0..n-1, n the smallest count whose last
\* window reaches the end of the text; no chunk is longer than size; 2500
\* characters with size 1000 and overlap 200 give the offsets 0, 800, 1600.
C10_ChunkWindows ==
    (ChunkTextReturned /\ 0 <= overlap /\ overlap < chunk_size) =>
        /\ chunks = WindowChunks(text, chunk_size, overlap)
        /\ \A j \in 1..Len(chunks) : Len(chunks[j]) <= chunk_size
        /\ (Len(text) = 2500 /\ chunk_size = 1000 /\ overlap = 200) =>
              /\ Len(chunks) = 3
              /\ chunks[1][1] = 0 + 1
              /\ chunks[2][1] = 800 + 1
              /\ chunks[3][1] = 1600 + 1

\* C10 witness: the scenario of 2500 characters, size 1000, overlap 200
C10_Witness ==
    /\ mode = "chunk" /\ pc = "done"
    /\ Len(text) = 2500 /\ chunk_size = 1000 /\ overlap = 200
    /\ Len(chunks) = 3

\* C7, state part: the model is loaded at most once and the examples are
\* embedded, in passage mode, at most once; a call without exclude_file whose
\* k covers the store has every cached example as a neighbor.
C7_LoadedOnce ==
    mode = "clf" =>
        /\ model_loads <= 1
        /\ passage_embeds <= 1
        /\ ClfReturned =>
              /\ inst._example_embeddings # None
              /\ \A i \in 1..Len(inst._example_embeddings.val) :
                    inst._example_embeddings.val[i] =
                        Passage(inst._example_labels.val[i].file)
              /\ (exclude_file = NoFile /\ k >= Len(inst._example_labels.val)) =>
                    NeighborFiles(result.neighbors) =
                        LabelFiles(inst._example_labels.val)

\* C7, step part: once a call has returned, no later step (a call with or
\* without exclude_file, a change of the files on disk) changes the cached
\* examples, the cached vectors or the loaded model.
C7_CacheFrozen ==
    ClfReturned => (inst' = inst)

\* C7: over any sequence of PhishingClassifier.classify calls of a process
\* the examples are loaded and embedded at most once, the model is loaded at
\* most once, and after the first call the cache never changes, so a call
\* with exclude_file leaves the store whole for the calls after it.
C7_ExampleStoreBuiltOnce == [](C7_LoadedOnce) /\ [][C7_CacheFrozen]_vars

\* C7 witness: a second call, without exclude_file, sees both cached examples
\* although the files on disk are no longer the ones that were loaded
C7_Witness ==
    /\ ClfReturned /\ calls >= 2
    /\ passage_embeds = 1 /\ model_loads = 1
    /\ exclude_file = NoFile
    /\ Len(result.neighbors) = 2
    /\ disk # LabelFiles(inst._example_labels.val)

\* confidence a is at most confidence b
ConfAtMost(a, b) == a.num * b.den <= b.num * a.den

\* the chunks that decide the verdict: the phishing ones if there are any
DecisiveIdx == IF PhishingIdx # {} THEN PhishingIdx ELSE 1..Len(chunk_results)

\* C8: the email's confidence and neighbors are those of one chunk whose
\* confidence is the maximum among the phishing chunks when there is one
\* (never of a legitimate chunk, however confident), and among all chunks
\* when there is none.
C8_DecisiveChunk ==
    KnnReturned =>
        \E i \in DecisiveIdx :
            /\ result.confidence = chunk_results[i].confidence
            /\ result.neighbors = chunk_results[i].neighbors
            /\ \A j \in DecisiveIdx :
                  ConfAtMost(chunk_results[j].confidence,
                             chunk_results[i].confidence)

\* C8 witness: a legitimate chunk is more confident than every phishing chunk
C8_Witness ==
    /\ KnnReturned
    /\ PhishingIdx # {}
    /\ \E i \in 1..Len(chunk_results) :
          /\ ~chunk_results[i].is_phishing
          /\ \A j \in PhishingIdx :
                ~ConfAtMost(chunk_results[i].confidence,
                            chunk_results[j].confidence)

\* the verdict r is phishing exactly when the phishing neighbors' similarities
\* sum to strictly more than the legitimate neighbors' similarities
StrictMajority(r) ==
    r.is_phishing <=> (SimSum(r.neighbors, TRUE) > SimSum(r.neighbors, FALSE))

\* C9: the voter's verdict is phishing exactly when the similarities of the
\* selected phishing neighbors sum to strictly more than those of the
\* selected legitimate neighbors; on an exact tie the verdict is legitimate.
C9_StrictMajorityVerdict ==
    /\ (mode = "vote" /\ result.status = "ok") => StrictMajority(result)
    /\ mode = "knn" =>
          \A i \in 1..Len(chunk_results) : StrictMajority(chunk_results[i])
    /\ ClfReturned => StrictMajority(result)

\* C9 witness: a vote between classes whose similarity sums tie above zero
C9_Witness ==
    /\ mode = "vote" /\ result.status = "ok"
    /\ SimSum(result.neighbors, TRUE) = SimSum(result.neighbors, FALSE)
    /\ SimSum(result.neighbors, TRUE) > 0
    /\ ~result.is_phishing

\* a vote over the candidates use_labels with the similarities
\* `similarities` has returned
VoteReturned ==
    /\ mode \in {"vote", "clf"}
    /\ result.status = "ok"
    /\ use_labels # <<>>

\* the original index of the candidate a neighbor is
CandidateIdx(nb) == CHOOSE i \in 1..Len(use_labels) : use_labels[i].file = nb.file

\* the original indices of the neighbors, in the order they are listed
NeighborIdx == [j \in 1..Len(result.neighbors) |-> CandidateIdx(result.neighbors[j])]

\* the neighbors are min(k, n) different candidates, each with its own
\* similarity and label, listed in descending similarity, and no candidate
\* left out is more similar than one that is listed
TopKDescending ==
    /\ Len(result.neighbors) = Min(k, Len(use_labels))
    /\ \A j \in 1..Len(result.neighbors) :
          /\ result.neighbors[j].file \in LabelFiles(use_labels)
          /\ result.neighbors[j].similarity = similarities[NeighborIdx[j]]
          /\ result.neighbors[j].is_phishing = use_labels[NeighborIdx[j]].is_phishing
          /\ result.neighbors[j].label = use_labels[NeighborIdx[j]].label
    /\ \A j1, j2 \in 1..Len(result.neighbors) :
          j1 < j2 =>
             /\ NeighborIdx[j1] # NeighborIdx[j2]
             /\ result.neighbors[j1].similarity >= result.neighbors[j2].similarity
    /\ \A i \in 1..Len(use_labels) :
          i \notin {NeighborIdx[j] : j \in 1..Len(result.neighbors)} =>
             \A j \in 1..Len(result.neighbors) :
                similarities[i] <= result.neighbors[j].similarity

\* among candidates of equal similarity the earlier original index is
\* selected, and is listed ahead of the later one
TiesByOriginalIndex ==
    /\ \A j1, j2 \in 1..Len(result.neighbors) :
          (j1 < j2 /\ result.neighbors[j1].similarity
                        = result.neighbors[j2].similarity)
             => NeighborIdx[j1] < NeighborIdx[j2]
    /\ \A i \in 1..Len(use_labels) :
          i \notin {NeighborIdx[j] : j \in 1..Len(result.neighbors)} =>
             \A j \in 1..Len(result.neighbors) :
                similarities[i] = result.neighbors[j].similarity
                   => NeighborIdx[j] < i

\* C11 as claimed: the voter selects the k most similar candidates (all of
\* them when k exceeds their number), lists them in descending similarity,
\* and breaks ties by original index, the earlier index selected and ranked
\* ahead of the later one.
C11_TopKTiesByIndex == VoteReturned => (TopKDescending /\ TiesByOriginalIndex)

\* C11 amended: the voter selects min(k, n) candidates none of which is less
\* similar than a candidate left out and lists them in descending
\* similarity; which of several equally similar candidates is selected, and
\* in which order they are listed, is not fixed.
C11_TopKDescending == VoteReturned => TopKDescending

\* C11 witness: k is smaller than the candidate count and two neighbors of
\* equal similarity are listed with the later original index first
C11_Witness ==
    /\ VoteReturned
    /\ k < Len(use_labels)
    /\ \E j1, j2 \in 1..Len(result.neighbors) :
          /\ j1 < j2
          /\ result.neighbors[j1].similarity = result.neighbors[j2].similarity
          /\ NeighborIdx[j1] > NeighborIdx[j2]

\* C12: for a non-empty candidate set and similarities anywhere in [-1, 1]
\* the voter returns confidence exactly 0.0 only when both accumulators, the
\* phishing similarity sum and the legitimate similarity sum, are zero.
C12_ZeroConfidenceOnlyWhenNoVotes ==
    (VoteReturned /\ result.confidence.num = 0) =>
        /\ SimSum(result.neighbors, TRUE) = 0
        /\ SimSum(result.neighbors, FALSE) = 0

\* the arguments with which chunk_text is claimed to terminate
Advancing == chunk_size >= 1 /\ 0 <= overlap /\ overlap < chunk_size

\* the arguments with which chunk_text is claimed to loop for ever
Stalling == overlap >= chunk_size /\ Len(text) > chunk_size

\* C13, termination: with overlap < chunk_size a call of chunk_text returns.
C13_Terminates == (pc = "chunk_entry" /\ Advancing) ~> (pc = "done")

\* C13, the reason: with overlap < chunk_size every iteration adds one chunk
\* and moves the start forward by exactly chunk_size - overlap, at least 1.
C13_StartAdvances ==
    (pc = "chunk_loop" /\ Advancing) =>
        /\ Len(chunks') = Len(chunks) + 1
        /\ start' = start + (chunk_size - overlap)
        /\ start' > start

\* C13, divergence: with overlap >= chunk_size and a text longer than
\* chunk_size the start never moves forward, the while condition stays
\* true, the break is never taken, and the call never returns.
C13_StalledLoopGoesOn ==
    Stalling =>
        /\ pc # "done"
        /\ pc = "chunk_loop" =>
              /\ start <= 0
              /\ start < Len(text)
              /\ chunks # <<>> => ~StopAfter(start, overlap, text)

C13_StartNeverAdvances ==
    (pc = "chunk_loop" /\ Stalling) =>
        /\ start' <= start
        /\ pc' = "chunk_loop"
        /\ Len(chunks') = Len(chunks) + 1

\* C13: chunk_text terminates for every text, chunk_size >= 1 and overlap
\* with 0 <= overlap < chunk_size, the start growing by chunk_size - overlap
\* on each iteration until the stop condition holds; with overlap >=
\* chunk_size and len(text) > chunk_size the start does not advance and the
\* loop never terminates.
C13_TerminatesIffAdvancing ==
    /\ C13_Terminates
    /\ [][C13_StartAdvances]_vars
    /\ [](C13_StalledLoopGoesOn)
    /\ [][C13_StartNeverAdvances]_vars

\* C13 witness: a call that went round the loop at least three times and
\* returned
C13_Witness ==
    /\ mode = "chunk" /\ pc = "done"
    /\ Advancing
    /\ Len(text) > chunk_size
    /\ Len(chunks) >= 3

=============================================================================
